---- MODULE Spec2Model ----
(***************************************************************************)
(* Model of the word-search game core of Melimemots:                       *)
(* GameService (src/src/app/services/game.service.ts), the selection       *)
(* state machine (startSelection / continueSelection / endSelection) and   *)
(* the word matcher (checkWord).                                           *)
(*                                                                         *)
(* A Cell object is identified by its grid position <<row, col>> (rows and *)
(* columns are 0-based, as in the code).  The grid maps each position to   *)
(* the Cell record, so a write through a reference held in selectedCells   *)
(* is a write to the grid (the code shares the Cell objects).              *)
(* resetGame empties GameState.grid and leaves the Cell objects as they    *)
(* are: they stay in the variable grid, marked detached, because a caller  *)
(* that kept them can still pass them to the service.                      *)
(* Words and letter strings are sequences of one-character strings.        *)
(***************************************************************************)
EXTENDS Integers, Sequences, FiniteSets, TLC

VARIABLES
  grid,             \* the Cell objects of the last response: position -> Cell
  detached,         \* TRUE when GameState.grid is [] (after resetGame) and
                    \* the Cell objects are only held by callers
  words,            \* GameState.words
  foundWords,       \* GameState.foundWords
  selectedCells,    \* GameState.selectedCells: sequence of cell references
  isSelecting,      \* GameState.isSelecting
  lockedDirection,  \* GameState.lockedDirection, Undefined when absent
  solution,         \* GameService.solution
  lastEvent         \* history: the last call; for endSelection the gesture
                    \* it ended and what checkWord returned, for
                    \* continueSelection where it returned, for a
                    \* successful load the gesture it replaced

\* The value held by gameStateSubject.
state == <<grid, detached, words, foundWords, selectedCells, isSelecting,
           lockedDirection>>

vars == <<grid, detached, words, foundWords, selectedCells, isSelecting,
          lockedDirection, solution, lastEvent>>

\* GameState.grid
GameGrid == IF detached THEN <<>> ELSE grid

\* JavaScript's undefined (lockedDirection) and null (checkWord's result).
Undefined == <<>>
Null == <<>>

-----------------------------------------------------------------------------
(* Helpers of the JavaScript runtime used by the code *)

Abs(x) == IF x < 0 THEN -x ELSE x

Sign(x) == IF x > 0 THEN 1 ELSE IF x < 0 THEN -1 ELSE 0

\* String.prototype.toUpperCase on one character of the alphabet in use.
UpperChar(ch) ==
  CASE ch = "a" -> "A"
    [] ch = "c" -> "C"
    [] ch = "l" -> "L"
    [] ch = "n" -> "N"
    [] ch = "s" -> "S"
    [] ch = "e" -> "E"
    [] ch = "t" -> "T"
    [] ch = "u" -> "U"
    [] OTHER -> ch

ToUpperCase(w) == [i \in 1..Len(w) |-> UpperChar(w[i])]

\* split('').reverse().join('') on a string, reverse() on a list.
Reverse(w) == [i \in 1..Len(w) |-> w[Len(w) + 1 - i]]

Range(s) == {s[i] : i \in 1..Len(s)}

-----------------------------------------------------------------------------
(* The four permitted directions *)

directionCoordinates ==
  [H |-> <<0, 1>>, V |-> <<1, 0>>, D1 |-> <<-1, 1>>, D2 |-> <<1, 1>>]

-----------------------------------------------------------------------------
(* Responses of the grid service (GridResponse) the model loads *)

Response1 ==
  [grille   |-> << <<"C", "A", "T">>,
                   <<"A", "X", "X">>,
                   <<"T", "A", "C">> >>,
   solution |-> << [mot |-> <<"c", "a", "t">>, start |-> <<0, 0>>,
                    direction |-> directionCoordinates.H] >>]

Response2 ==
  [grille   |-> << <<"E", "T">>,
                   <<"X", "E">> >>,
   solution |-> << [mot |-> <<"T", "E">>, start |-> <<0, 1>>,
                    direction |-> directionCoordinates.V],
                   [mot |-> <<"E", "T">>, start |-> <<0, 0>>,
                    direction |-> directionCoordinates.H] >>]

Response3 ==
  [grille   |-> << <<"L", "N">>,
                   <<"U", "A">> >>,
   solution |-> << [mot |-> <<"u", "n">>, start |-> <<1, 0>>,
                    direction |-> directionCoordinates.D1],
                   [mot |-> <<"L", "A">>, start |-> <<0, 0>>,
                    direction |-> directionCoordinates.D2] >>]

Response4 ==
  [grille   |-> << <<"S", "A", "C">>,
                   <<"A", "C", "X">> >>,
   solution |-> << [mot |-> <<"S", "A">>, start |-> <<0, 0>>,
                    direction |-> directionCoordinates.V],
                   [mot |-> <<"S", "A", "C">>, start |-> <<0, 0>>,
                    direction |-> directionCoordinates.H] >>]

AllResponses == <<Response1, Response2, Response3, Response4>>

\* How many of the responses above the grid service may return.
NumResponses == 3

Responses ==
  {AllResponses[i] : i \in 1..(IF NumResponses < Len(AllResponses)
                               THEN NumResponses ELSE Len(AllResponses))}

-----------------------------------------------------------------------------
(* Initial state: the BehaviorSubject's first value, no solution *)

NoEvent == [op |-> "none", cells |-> <<>>, found |-> Null, outcome |-> ""]

Init ==
  /\ grid = <<>>
  /\ detached = FALSE
  /\ words = <<>>
  /\ foundWords = {}
  /\ selectedCells = <<>>
  /\ isSelecting = FALSE
  /\ lockedDirection = Undefined
  /\ solution = <<>>
  /\ lastEvent = NoEvent

-----------------------------------------------------------------------------
(* loadGame / initializeGame *)

\* The positions of a grille: rowIndex and colIndex of the two map() calls.
GrillePositions(grille) ==
  {<<i - 1, j - 1>> : i \in 1..Len(grille), j \in 1..Len(grille[1])}

\* A variant of initializeGame that spreads the old state's foundWords
\* instead of starting from an empty Set.
InitializeGameKeepsFoundWords(response) ==
  /\ grid' = [p \in GrillePositions(response.grille) |->
                [letter     |-> response.grille[p[1] + 1][p[2] + 1],
                 row        |-> p[1],
                 col        |-> p[2],
                 isSelected |-> FALSE,
                 isFound    |-> FALSE]]
  /\ detached' = FALSE
  /\ words' = [i \in 1..Len(response.solution) |->
                 ToUpperCase(response.solution[i].mot)]
  /\ solution' = response.solution
  /\ selectedCells' = <<>>
  /\ isSelecting' = FALSE
  /\ lockedDirection' = Undefined
  /\ UNCHANGED foundWords

InitializeGame(response) ==
  /\ grid' = [p \in GrillePositions(response.grille) |->
                [letter     |-> response.grille[p[1] + 1][p[2] + 1],
                 row        |-> p[1],
                 col        |-> p[2],
                 isSelected |-> FALSE,
                 isFound    |-> FALSE]]
  /\ detached' = FALSE
  /\ words' = [i \in 1..Len(response.solution) |->
                 ToUpperCase(response.solution[i].mot)]
  /\ solution' = response.solution
  /\ foundWords' = {}
  /\ selectedCells' = <<>>
  /\ isSelecting' = FALSE
  /\ lockedDirection' = Undefined

\* The request succeeds: tap() runs initializeGame on the response.
LoadGame(response) ==
  /\ InitializeGame(response)
  /\ lastEvent' = [NoEvent EXCEPT !.op = "loadGame", !.cells = selectedCells]

\* The request fails: tap() does not run, the subscriber's error handler does.
LoadGameError ==
  /\ UNCHANGED <<state, solution>>
  /\ lastEvent' = [NoEvent EXCEPT !.op = "loadGameError"]

-----------------------------------------------------------------------------
(* startSelection *)
\* A variant of startSelection that spreads the old state and does not set
\* lockedDirection to undefined.
StartSelectionKeepsLock(cell) ==
  /\ grid' = [grid EXCEPT ![cell].isSelected = TRUE]
  /\ selectedCells' = <<cell>>
  /\ isSelecting' = TRUE
  /\ UNCHANGED <<lockedDirection, detached, words, foundWords, solution>>
  /\ lastEvent' = [NoEvent EXCEPT !.op = "startSelection"]

StartSelection(cell) ==
  /\ grid' = [grid EXCEPT ![cell].isSelected = TRUE]
  /\ selectedCells' = <<cell>>
  /\ isSelecting' = TRUE
  /\ lockedDirection' = Undefined
  /\ UNCHANGED <<detached, words, foundWords, solution>>
  /\ lastEvent' = [NoEvent EXCEPT !.op = "startSelection"]

-----------------------------------------------------------------------------
(* continueSelection *)

\* state.selectedCells.some(c => c.row === cell.row && c.col === cell.col)
AlreadySelected(cell) ==
  \E i \in 1..Len(selectedCells) :
    /\ grid[selectedCells[i]].row = grid[cell].row
    /\ grid[selectedCells[i]].col = grid[cell].col

\* Mutant of IsAdjacent: || where the code has && between the two bounds.
IsAdjacentEitherAxis(rowDiff, colDiff) ==
  (rowDiff <= 1 \/ colDiff <= 1) /\ (rowDiff + colDiff > 0)

\* isAdjacent, from rowDiff and colDiff
IsAdjacent(rowDiff, colDiff) ==
  (rowDiff <= 1 /\ colDiff <= 1) /\ (rowDiff + colDiff > 0)

\* Mutant of CurrentDirection: dc computed from the rows, as dr is.
CurrentDirectionRowTwice(cell, lastCell) ==
  <<Sign(grid[cell].row - grid[lastCell].row),
    Sign(grid[cell].row - grid[lastCell].row)>>

\* currentDirection = [dr, dc]
CurrentDirection(cell, lastCell) ==
  <<Sign(grid[cell].row - grid[lastCell].row),
    Sign(grid[cell].col - grid[lastCell].col)>>

\* Mutant of DirectionRefused: && where the code has || between dr and dc.
DirectionRefusedBothDiffer(currentDirection) ==
  /\ lockedDirection # Undefined
  /\ currentDirection[1] # lockedDirection[1]
  /\ currentDirection[2] # lockedDirection[2]

\* A variant of the locked-direction test that compares the row component
\* only.
DirectionRefusedRowOnly(currentDirection) ==
  /\ lockedDirection # Undefined
  /\ currentDirection[1] # lockedDirection[1]

\* The locked-direction test: a direction is locked and the step differs.
DirectionRefused(currentDirection) ==
  /\ lockedDirection # Undefined
  /\ \/ currentDirection[1] # lockedDirection[1]
     \/ currentDirection[2] # lockedDirection[2]

\* A variant of newLockedDirection that tests the length after the append
\* against 1: the lock would be set on the third cell.
NewLockedDirectionOneLate(currentDirection) ==
  IF Len(selectedCells) + 1 = 1 THEN currentDirection ELSE lockedDirection

\* newLockedDirection
NewLockedDirection(currentDirection) ==
  IF Len(selectedCells) = 1 THEN currentDirection ELSE lockedDirection

\* Where continueSelection returns: the early returns in the code's order,
\* "accepted" when it reaches the update.
ContinueOutcome(cell) ==
  IF ~isSelecting THEN "notSelecting"
  ELSE IF AlreadySelected(cell) THEN "alreadySelected"
  ELSE LET lastCell == selectedCells[Len(selectedCells)]
       IN  IF ~IsAdjacent(Abs(grid[cell].row - grid[lastCell].row),
                          Abs(grid[cell].col - grid[lastCell].col))
           THEN "notAdjacent"
           ELSE IF DirectionRefused(CurrentDirection(cell, lastCell))
                THEN "directionRefused"
                ELSE "accepted"

\* A variant of continueSelection that marks the cell before the isSelecting
\* test instead of after the last test.
ContinueSelectionMarksFirst(cell) ==
  /\ lastEvent' = [NoEvent EXCEPT !.op = "continueSelection",
                                  !.outcome = ContinueOutcome(cell)]
  /\ UNCHANGED solution
  /\ IF ContinueOutcome(cell) # "accepted"
     THEN /\ grid' = [grid EXCEPT ![cell].isSelected = TRUE]
          /\ UNCHANGED <<detached, words, foundWords, selectedCells,
                         isSelecting, lockedDirection>>
     ELSE LET lastCell == selectedCells[Len(selectedCells)]
          IN  /\ grid' = [grid EXCEPT ![cell].isSelected = TRUE]
              /\ selectedCells' = Append(selectedCells, cell)
              /\ lockedDirection' =
                   NewLockedDirection(CurrentDirection(cell, lastCell))
              /\ UNCHANGED <<detached, words, foundWords, isSelecting>>

ContinueSelection(cell) ==
  /\ lastEvent' = [NoEvent EXCEPT !.op = "continueSelection",
                                  !.outcome = ContinueOutcome(cell)]
  /\ UNCHANGED solution
  /\ IF ContinueOutcome(cell) # "accepted"
     THEN UNCHANGED state
     ELSE LET lastCell == selectedCells[Len(selectedCells)]
          IN  /\ grid' = [grid EXCEPT ![cell].isSelected = TRUE]
              /\ selectedCells' = Append(selectedCells, cell)
              /\ lockedDirection' =
                   NewLockedDirection(CurrentDirection(cell, lastCell))
              /\ UNCHANGED <<detached, words, foundWords, isSelecting>>

-----------------------------------------------------------------------------
(* checkWord *)

\* Mutant of EntryMatches: the letter test alone, no endpoint test.
EntryMatchesLettersOnly(sol, word, cells) ==
  \/ ToUpperCase(sol.mot) = ToUpperCase(word)
  \/ ToUpperCase(sol.mot) = ToUpperCase(Reverse(word))

\* The body of the loop for one solution entry: the letter test, then
\* matches || matchesReverse.
EntryMatches(sol, word, cells) ==
  LET normalWord   == ToUpperCase(word)
      reversedWord == ToUpperCase(Reverse(word))
      solWord      == ToUpperCase(sol.mot)
      firstCell    == grid[cells[1]]
      lastCell     == grid[cells[Len(cells)]]
      startRow     == sol.start[1]
      startCol     == sol.start[2]
      dr           == sol.direction[1]
      dc           == sol.direction[2]
      endRow       == startRow + dr * (Len(sol.mot) - 1)
      endCol       == startCol + dc * (Len(sol.mot) - 1)
      matches      == firstCell.row = startRow /\ firstCell.col = startCol
      matchesReverse ==
        /\ lastCell.row = startRow /\ lastCell.col = startCol
        /\ firstCell.row = endRow /\ firstCell.col = endCol
  IN  /\ (solWord = normalWord \/ solWord = reversedWord)
      /\ (matches \/ matchesReverse)

\* A variant of the loop of checkWord without the return inside the loop: the
\* last matching entry wins.
RECURSIVE CheckWordFromLastWins(_, _, _)
CheckWordFromLastWins(i, word, cells) ==
  IF i > Len(solution) THEN Null
  ELSE LET later == CheckWordFromLastWins(i + 1, word, cells)
       IN  IF later # Null THEN later
           ELSE IF EntryMatches(solution[i], word, cells)
                THEN ToUpperCase(solution[i].mot)
                ELSE Null

\* for (const sol of this.solution), from entry i on.
RECURSIVE CheckWordFrom(_, _, _)
CheckWordFrom(i, word, cells) ==
  IF i > Len(solution) THEN Null
  ELSE IF EntryMatches(solution[i], word, cells)
       THEN ToUpperCase(solution[i].mot)
       ELSE CheckWordFrom(i + 1, word, cells)

CheckWord(word, cells) == CheckWordFrom(1, word, cells)

-----------------------------------------------------------------------------
(* clearSelection, endSelection *)

\* Mutant of ClearSelection: the forEach that resets isSelected is missing.
ClearSelectionKeepsFlags ==
  /\ selectedCells' = <<>>
  /\ isSelecting' = FALSE
  /\ lockedDirection' = Undefined
  /\ UNCHANGED <<grid, detached, words, foundWords>>

\* A variant of clearSelection that leaves out isSelecting: false.
ClearSelectionStaysSelecting ==
  /\ grid' = [p \in DOMAIN grid |->
                IF p \in Range(selectedCells)
                THEN [grid[p] EXCEPT !.isSelected = FALSE]
                ELSE grid[p]]
  /\ selectedCells' = <<>>
  /\ lockedDirection' = Undefined
  /\ UNCHANGED <<isSelecting, detached, words, foundWords>>

\* A variant of clearSelection that resets both flags of the gestured cells.
ClearSelectionResetsFound ==
  /\ grid' = [p \in DOMAIN grid |->
                IF p \in Range(selectedCells)
                THEN [grid[p] EXCEPT !.isSelected = FALSE, !.isFound = FALSE]
                ELSE grid[p]]
  /\ selectedCells' = <<>>
  /\ isSelecting' = FALSE
  /\ lockedDirection' = Undefined
  /\ UNCHANGED <<detached, words, foundWords>>

ClearSelection ==
  /\ grid' = [p \in DOMAIN grid |->
                IF p \in Range(selectedCells)
                THEN [grid[p] EXCEPT !.isSelected = FALSE]
                ELSE grid[p]]
  /\ selectedCells' = <<>>
  /\ isSelecting' = FALSE
  /\ lockedDirection' = Undefined
  /\ UNCHANGED <<detached, words, foundWords>>

\* state.selectedCells.map(c => c.letter).join('')
SelectedWord(cells) == [i \in 1..Len(cells) |-> grid[cells[i]].letter]

\* What endSelection gets from checkWord, Null when it does not call it.
FoundWord ==
  IF ~isSelecting \/ Len(selectedCells) < 2
  THEN Null
  ELSE CheckWord(SelectedWord(selectedCells), selectedCells)

\* Mutant of Truthy: if (foundWord !== undefined), which null passes.
TruthyNotUndefined(w) == TRUE

\* if (foundWord): null and the empty string are both falsy.
Truthy(w) == w # Null /\ Len(w) > 0

EndSelection ==
  /\ lastEvent' = [NoEvent EXCEPT !.op = "endSelection",
                                  !.cells = selectedCells,
                                  !.found = FoundWord]
  /\ UNCHANGED solution
  /\ IF ~isSelecting \/ Len(selectedCells) < 2
     THEN ClearSelection
     ELSE IF Truthy(FoundWord)
          THEN /\ grid' = [p \in DOMAIN grid |->
                             IF p \in Range(selectedCells)
                             THEN [grid[p] EXCEPT !.isFound = TRUE,
                                                  !.isSelected = FALSE]
                             ELSE grid[p]]
               /\ foundWords' = foundWords \cup {ToUpperCase(FoundWord)}
               /\ selectedCells' = <<>>
               /\ isSelecting' = FALSE
               /\ lockedDirection' = Undefined
               /\ UNCHANGED <<detached, words>>
          ELSE ClearSelection

-----------------------------------------------------------------------------
(* isGameComplete, resetGame *)

\* A variant of isGameComplete that counts the stored solution list instead
\* of GameState.words.
IsGameCompleteBySolution == Cardinality(foundWords) = Len(solution)

IsGameComplete == Cardinality(foundWords) = Len(words)

ResetGame ==
  /\ grid' = grid
  /\ detached' = TRUE
  /\ words' = <<>>
  /\ foundWords' = {}
  /\ selectedCells' = <<>>
  /\ isSelecting' = FALSE
  /\ lockedDirection' = Undefined
  /\ UNCHANGED solution
  /\ lastEvent' = [NoEvent EXCEPT !.op = "resetGame"]

-----------------------------------------------------------------------------
\* The service driven with the cells of GameState.grid, the cells the
\* component renders and passes.
Next ==
  \/ \E response \in Responses : LoadGame(response)
  \/ LoadGameError
  \/ \E cell \in DOMAIN GameGrid : StartSelection(cell)
  \/ \E cell \in DOMAIN GameGrid : ContinueSelection(cell)
  \/ EndSelection
  \/ ResetGame

Spec == Init /\ [][Next]_vars

\* The service driven by any caller: it may also pass the Cell objects it
\* kept from the last snapshot after resetGame has emptied GameState.grid.
NextHeld ==
  \/ \E response \in Responses : LoadGame(response)
  \/ LoadGameError
  \/ \E cell \in DOMAIN grid : StartSelection(cell)
  \/ \E cell \in DOMAIN grid : ContinueSelection(cell)
  \/ EndSelection
  \/ ResetGame

SpecHeld == Init /\ [][NextHeld]_vars

-----------------------------------------------------------------------------
(* WordSearchComponent: the mouse and touch handlers that call the service *)

\* A variant of onCellMouseDown without the test of cell.isFound.
OnCellMouseDownNoGuard(cell) == StartSelection(cell)

\* onCellMouseDown: nothing on a found cell, else startSelection.
OnCellMouseDown(cell) ==
  IF grid[cell].isFound THEN UNCHANGED vars ELSE StartSelection(cell)

\* onCellMouseEnter: nothing on a found cell or when no gesture is open,
\* else continueSelection.
OnCellMouseEnter(cell) ==
  IF grid[cell].isFound THEN UNCHANGED vars
  ELSE IF isSelecting THEN ContinueSelection(cell) ELSE UNCHANGED vars

OnCellMouseUp == EndSelection

\* onCellTouchStart: as onCellMouseDown, after preventDefault.
OnCellTouchStart(cell) ==
  IF grid[cell].isFound THEN UNCHANGED vars ELSE StartSelection(cell)

\* onCellTouchMove: nothing when no gesture is open; the cell under the
\* finger is looked up in gameState.grid, and continueSelection is called
\* when it is there and not found.
OnCellTouchMove(cell) ==
  IF ~isSelecting THEN UNCHANGED vars
  ELSE IF cell \in DOMAIN GameGrid /\ ~grid[cell].isFound
       THEN ContinueSelection(cell)
       ELSE UNCHANGED vars

\* onCellTouchEnd and onGridTouchEnd
OnCellTouchEnd == EndSelection

\* The service as the component drives it: the component never calls
\* resetGame.
NextAdapter ==
  \/ \E response \in Responses : LoadGame(response)
  \/ LoadGameError
  \/ \E cell \in DOMAIN GameGrid : OnCellMouseDown(cell)
  \/ \E cell \in DOMAIN GameGrid : OnCellMouseEnter(cell)
  \/ OnCellMouseUp
  \/ \E cell \in DOMAIN GameGrid : OnCellTouchStart(cell)
  \/ \E cell \in DOMAIN GameGrid : OnCellTouchMove(cell)
  \/ OnCellTouchEnd

SpecAdapter == Init /\ [][NextAdapter]_vars

-----------------------------------------------------------------------------
(* Terms the properties below are stated in *)

\* The position of the cell a reference points to.
CellPos(c) == <<grid[c].row, grid[c].col>>

FirstOf(cells) == CellPos(cells[1])

LastOf(cells) == CellPos(cells[Len(cells)])

\* The letters of the cells, read in order, are the word or the word reversed.
SpellsWord(sol, cells) ==
  \/ ToUpperCase(SelectedWord(cells)) = ToUpperCase(sol.mot)
  \/ ToUpperCase(SelectedWord(cells)) = Reverse(ToUpperCase(sol.mot))

\* start + direction * (len(word) - 1)
ExpectedLast(sol) ==
  <<sol.start[1] + sol.direction[1] * (Len(sol.mot) - 1),
    sol.start[2] + sol.direction[2] * (Len(sol.mot) - 1)>>

\* Both endpoints of the cells are those of the solution, in either order.
EndpointsAgree(sol, cells) ==
  \/ FirstOf(cells) = sol.start /\ LastOf(cells) = ExpectedLast(sol)
  \/ LastOf(cells) = sol.start /\ FirstOf(cells) = ExpectedLast(sol)

\* The cells of a solution: start + k * direction, 0 <= k < len(word).
SolutionPath(sol) ==
  [k \in 1..Len(sol.mot) |-> <<sol.start[1] + (k - 1) * sol.direction[1],
                               sol.start[2] + (k - 1) * sol.direction[2]>>]

\* endSelection has just run on a gesture of at least two cells.
EndedGesture ==
  lastEvent.op = "endSelection" /\ Len(lastEvent.cells) >= 2

-----------------------------------------------------------------------------
(* C1 *)

\* C1: endSelection records a word as found only when the gesture's letters
\* equal a solution's word (forward or reversed) and both endpoints of the
\* gesture are that solution's start and expected last cell, in either order.
C1_FoundOnlyWithBothEndpoints ==
  (EndedGesture /\ lastEvent.found # Null) =>
    \E i \in 1..Len(solution) :
      /\ ToUpperCase(solution[i].mot) = lastEvent.found
      /\ SpellsWord(solution[i], lastEvent.cells)
      /\ EndpointsAgree(solution[i], lastEvent.cells)

-----------------------------------------------------------------------------
(* C2 *)

\* C2: in every state a cell has isSelected = TRUE if and only if it is in the
\* current gesture list.
C2_SelectedIffInGesture ==
  \A p \in DOMAIN grid : grid[p].isSelected <=> p \in Range(selectedCells)

-----------------------------------------------------------------------------
(* C3 *)

\* C3: for every finished gesture of at least two cells the matcher returns
\* the same result for the cells as for the same cells in the opposite order.
C3_MatchInvariantUnderReversal ==
  (isSelecting /\ Len(selectedCells) >= 2) =>
    CheckWord(SelectedWord(selectedCells), selectedCells)
      = CheckWord(SelectedWord(Reverse(selectedCells)), Reverse(selectedCells))

-----------------------------------------------------------------------------
(* C4 *)

\* The cell is not 8-directionally adjacent to the last selected cell.
NotAdjacentToLast(cell) ==
  LET last == LastOf(selectedCells)
      dRow == Abs(CellPos(cell)[1] - last[1])
      dCol == Abs(CellPos(cell)[2] - last[2])
      far  == IF dRow > dCol THEN dRow ELSE dCol
  IN  far > 1 \/ CellPos(cell) = last

\* The sign step from the last selected cell to the cell.
StepFromLast(cell) ==
  <<Sign(CellPos(cell)[1] - LastOf(selectedCells)[1]),
    Sign(CellPos(cell)[2] - LastOf(selectedCells)[2])>>

\* The three rejections of an extension, as the claim words them.
MustBeRejected(cell) ==
  \/ cell \in Range(selectedCells)
  \/ NotAdjacentToLast(cell)
  \/ Len(selectedCells) >= 2 /\ StepFromLast(cell) # lockedDirection

\* C4: while a gesture is active, continueSelection with a cell that is
\* already in the gesture, or not adjacent to the last cell, or (gesture of
\* at least two cells) off the locked direction, leaves the whole game state
\* unchanged.
C4_RejectedExtendChangesNothing ==
  [][(/\ isSelecting
      /\ lastEvent'.op = "continueSelection"
      /\ <<state, solution>>' # <<state, solution>>) =>
       \A cell \in DOMAIN grid :
         MustBeRejected(cell) => ~ContinueSelection(cell)]_vars

\* A continueSelection that broke the locked direction has just returned.
C4_Witness ==
  /\ lastEvent.op = "continueSelection"
  /\ lastEvent.outcome = "directionRefused"
  /\ isSelecting
  /\ Len(selectedCells) >= 2

-----------------------------------------------------------------------------
(* C5 *)

\* The locked direction is the sign step from the first cell of the gesture
\* to the second, it exists exactly when the gesture has two cells or more,
\* and every cell after the first is its predecessor plus that step.
C5_LockIsFirstStep ==
  /\ (lockedDirection # Undefined) <=> (Len(selectedCells) >= 2)
  /\ Len(selectedCells) >= 2 =>
       /\ lockedDirection =
            <<Sign(CellPos(selectedCells[2])[1] - CellPos(selectedCells[1])[1]),
              Sign(CellPos(selectedCells[2])[2] - CellPos(selectedCells[1])[2])>>
       /\ \A k \in 2..Len(selectedCells) :
            CellPos(selectedCells[k]) =
              <<CellPos(selectedCells[k - 1])[1] + lockedDirection[1],
                CellPos(selectedCells[k - 1])[2] + lockedDirection[2]>>

\* A step gives the locked direction a new value only when it accepts the
\* second cell of a gesture; a continueSelection on a gesture of two cells or
\* more keeps it, and grows the gesture, if at all, by the one cell the locked
\* step leads to.
C5_LockSetOnceStep ==
  /\ (lockedDirection' # lockedDirection /\ lockedDirection' # Undefined) =>
       /\ lastEvent'.op = "continueSelection"
       /\ Len(selectedCells) = 1
       /\ Len(selectedCells') = 2
  /\ (lastEvent'.op = "continueSelection" /\ Len(selectedCells) >= 2) =>
       /\ lockedDirection' = lockedDirection
       /\ \/ selectedCells' = selectedCells
          \/ /\ Len(selectedCells') = Len(selectedCells) + 1
             /\ StepFromLast(selectedCells'[Len(selectedCells')])
                  = lockedDirection

\* C5: the locked direction is set once per gesture, when the second cell is
\* accepted, to (sign(row2 - row1), sign(col2 - col1)); it does not change
\* while the gesture lasts, every later accepted cell is one locked step from
\* its predecessor, and a third or later cell with another step is rejected.
C5_DirectionLock == [](C5_LockIsFirstStep) /\ [][C5_LockSetOnceStep]_vars

\* A third cell has just been accepted along a locked diagonal.
C5_Witness ==
  /\ lastEvent.op = "continueSelection"
  /\ lastEvent.outcome = "accepted"
  /\ Len(selectedCells) = 3
  /\ lockedDirection = <<-1, 1>>

-----------------------------------------------------------------------------
(* C6 *)

FourDirections ==
  {directionCoordinates.H, directionCoordinates.V,
   directionCoordinates.D1, directionCoordinates.D2}

\* The four permitted directions and their opposites.
EightDirections ==
  FourDirections \cup {<<-d[1], -d[2]>> : d \in FourDirections}

\* C6 (as stated): a locked direction is always one of the four permitted
\* direction vectors (0,1), (1,0), (-1,1), (1,1).
C6_LockedIsOneOfFour ==
  lockedDirection # Undefined => lockedDirection \in FourDirections

\* C6 (amended): a locked direction is always one of the four permitted
\* direction vectors or the opposite of one: a sign step (dr, dc) with dr, dc
\* in {-1, 0, 1}, not both 0.
C6_LockedIsOneOfEight ==
  lockedDirection # Undefined => lockedDirection \in EightDirections

\* A gesture has locked the opposite of a permitted direction.
C6_Witness ==
  /\ isSelecting
  /\ Len(selectedCells) = 3
  /\ lockedDirection = <<-1, -1>>

-----------------------------------------------------------------------------
(* C7 *)

\* endSelection has just ended a gesture that ran over the whole path of the
\* solution, from its start to its last cell or back.
TraversedSolution(sol) ==
  /\ lastEvent.op = "endSelection"
  /\ \/ lastEvent.cells = SolutionPath(sol)
     \/ lastEvent.cells = Reverse(SolutionPath(sol))

\* C7: begin at a solution's start cell, extend over its path and end (or the
\* same from its last cell back): the solution's uppercased word is in
\* foundWords, every cell of the gesture is found and not selected, the
\* gesture is empty, nothing is locked and isSelecting is false; once every
\* solution's word is found, isGameComplete() is true.
C7_TraversalFindsTheWord ==
  /\ \A i \in 1..Len(solution) :
       TraversedSolution(solution[i]) =>
         /\ ToUpperCase(solution[i].mot) \in foundWords
         /\ \A p \in Range(lastEvent.cells) :
              grid[p].isFound /\ ~grid[p].isSelected
         /\ selectedCells = <<>>
         /\ lockedDirection = Undefined
         /\ ~isSelecting
  /\ (\A i \in 1..Len(solution) :
        ToUpperCase(solution[i].mot) \in foundWords)
       => IsGameComplete

-----------------------------------------------------------------------------
(* C8 *)

\* Neither the first nor the last cell is the solution's start cell.
NoEndpointAtStart(sol, cells) ==
  FirstOf(cells) # sol.start /\ LastOf(cells) # sol.start

\* C8: a finished gesture that spells a solution's word (forward or reversed)
\* with neither endpoint on that solution's start cell never matches that
\* solution: when endSelection finds a word, some solution with that word,
\* spelled by the gesture, has its start cell at an endpoint of the gesture.
C8_NoMatchAwayFromStart ==
  (EndedGesture /\ lastEvent.found # Null) =>
    \E i \in 1..Len(solution) :
      /\ ToUpperCase(solution[i].mot) = lastEvent.found
      /\ SpellsWord(solution[i], lastEvent.cells)
      /\ ~NoEndpointAtStart(solution[i], lastEvent.cells)

\* endSelection has just refused a gesture that spells a solution's word away
\* from the solution's start cell.
C8_Witness ==
  /\ EndedGesture
  /\ lastEvent.found = Null
  /\ foundWords = {}
  /\ \E i \in 1..Len(solution) :
       /\ SpellsWord(solution[i], lastEvent.cells)
       /\ NoEndpointAtStart(solution[i], lastEvent.cells)

-----------------------------------------------------------------------------
(* C9, C10 *)

\* What a cancel leaves behind: the cells of the gesture are not selected,
\* nothing else of the grid has changed (no isFound flag in particular), the
\* gesture is empty, nothing is locked, isSelecting is false, and words,
\* foundWords and the solution list are as before.
CancelledStep ==
  /\ DOMAIN grid' = DOMAIN grid
  /\ \A p \in DOMAIN grid :
       /\ grid'[p].isSelected = (grid[p].isSelected /\ p \notin Range(selectedCells))
       /\ grid'[p].isFound = grid[p].isFound
       /\ grid'[p].letter = grid[p].letter
       /\ grid'[p].row = grid[p].row
       /\ grid'[p].col = grid[p].col
  /\ selectedCells' = <<>>
  /\ lockedDirection' = Undefined
  /\ isSelecting' = FALSE
  /\ foundWords' = foundWords
  /\ words' = words
  /\ solution' = solution

\* C9: endSelection when not selecting, or on a gesture of fewer than two
\* cells, is a cancel: the gestured cells lose isSelected, the gesture, the
\* locked direction and isSelecting are reset, and foundWords and every
\* isFound flag are unchanged.
C9_ShortGestureCancels ==
  [][(/\ lastEvent'.op = "endSelection"
      /\ (~isSelecting \/ Len(selectedCells) < 2)) => CancelledStep]_vars

\* endSelection has just cancelled a gesture of one cell.
C9_Witness ==
  /\ lastEvent.op = "endSelection"
  /\ Len(lastEvent.cells) = 1
  /\ ~isSelecting
  /\ ~grid[lastEvent.cells[1]].isSelected

\* C10: endSelection on a gesture of two cells or more that matches no
\* solution leaves the state the cancel path leaves: isSelected cleared on the
\* gestured cells, gesture, locked direction and isSelecting reset, foundWords
\* and all isFound flags unchanged.
C10_NoMatchIsCancel ==
  [][(/\ lastEvent'.op = "endSelection"
      /\ isSelecting
      /\ Len(selectedCells) >= 2
      /\ CheckWord(SelectedWord(selectedCells), selectedCells) = Null)
       => CancelledStep]_vars

\* endSelection has just ended a gesture of three cells that matched nothing.
C10_Witness ==
  /\ EndedGesture
  /\ Len(lastEvent.cells) = 3
  /\ lastEvent.found = Null
  /\ \A p \in Range(lastEvent.cells) : ~grid[p].isSelected /\ ~grid[p].isFound

-----------------------------------------------------------------------------
(* C11 *)

\* The number of target words, the number of distinct found words.
NumberOfTargetWords == Len(words)

NumberOfDistinctFoundWords == Cardinality({w \in foundWords : TRUE})

\* C11: in every reachable state isGameComplete() is true exactly when the
\* number of distinct found words equals the number of target words; in
\* particular it is true before any game is loaded and after resetGame, where
\* both numbers are zero, and false right after a load of a response that has
\* words.
C11_CompleteIffCountsAgree ==
  /\ IsGameComplete <=> (NumberOfDistinctFoundWords = NumberOfTargetWords)
  /\ lastEvent.op \in {"none", "resetGame"} => IsGameComplete
  /\ (lastEvent.op = "loadGame" /\ Len(solution) > 0) => ~IsGameComplete

\* endSelection has just found the last of the two words of a loaded game.
C11_Witness ==
  /\ EndedGesture
  /\ lastEvent.found # Null
  /\ NumberOfTargetWords = 2
  /\ IsGameComplete

-----------------------------------------------------------------------------
(* C12 *)

\* What the claim says the state is after startSelection(cell).
BeginResult(cell) ==
  /\ selectedCells' = <<cell>>
  /\ grid'[cell].isSelected
  /\ isSelecting'
  /\ lockedDirection' = Undefined
  /\ foundWords' = foundWords
  /\ \A p \in DOMAIN grid : grid'[p].isFound = grid[p].isFound

\* C12: startSelection(cell), called when no gesture is open or in the middle
\* of one, leaves the gesture equal to [cell], cell.isSelected true,
\* isSelecting true, no locked direction, and foundWords and every isFound
\* flag as they were; a gesture that was open is overwritten.
C12_BeginOverwritesGesture ==
  [][lastEvent'.op = "startSelection" =>
       \A cell \in DOMAIN grid : StartSelection(cell) => BeginResult(cell)]_vars

\* startSelection has just overwritten an open gesture, in a game with a
\* found word: its cell is the whole gesture and a cell of the overwritten
\* gesture still carries isSelected.
C12_Witness ==
  /\ lastEvent.op = "startSelection"
  /\ foundWords # {}
  /\ Len(selectedCells) = 1
  /\ isSelecting
  /\ lockedDirection = Undefined
  /\ \E p \in DOMAIN grid : p # selectedCells[1] /\ grid[p].isSelected

-----------------------------------------------------------------------------
(* C13 *)

\* C13: continueSelection(cell) called while isSelecting is false changes
\* nothing: the gesture, the locked direction, isSelecting, foundWords, the
\* words and every flag of every cell, the argument's isSelected included,
\* are as they were.
C13_ExtendWhenIdleChangesNothing ==
  [][(~isSelecting /\ lastEvent'.op = "continueSelection") =>
       /\ UNCHANGED <<state, solution>>
       /\ \A cell \in DOMAIN grid : ~grid[cell].isSelected =>
                                       ~grid'[cell].isSelected]_vars

\* continueSelection has just returned at its isSelecting test, in a loaded
\* game with a found word and no cell selected.
C13_Witness ==
  /\ lastEvent.op = "continueSelection"
  /\ lastEvent.outcome = "notSelecting"
  /\ ~isSelecting
  /\ selectedCells = <<>>
  /\ foundWords # {}
  /\ \A p \in DOMAIN grid : ~grid[p].isSelected

-----------------------------------------------------------------------------
(* C14 *)

\* The upper-case letters of the responses.
UpperLetters == {"A", "C", "E", "L", "N", "S", "T", "U", "X"}

\* w is mot in upper case: the same length, upper-case letters only, each
\* the upper case of mot's letter at that place.
IsUpperCaseOf(w, mot) ==
  /\ Len(w) = Len(mot)
  /\ \A k \in 1..Len(w) : w[k] \in UpperLetters /\ w[k] = UpperChar(mot[k])

\* The state is the one a load of the response builds from nothing.
FreshGameOf(response) ==
  /\ ~detached
  /\ DOMAIN grid = GrillePositions(response.grille)
  /\ \A p \in DOMAIN grid :
       /\ grid[p].letter = response.grille[p[1] + 1][p[2] + 1]
       /\ grid[p].row = p[1] /\ grid[p].col = p[2]
       /\ ~grid[p].isSelected
       /\ ~grid[p].isFound
  /\ solution = response.solution
  /\ Len(words) = Len(response.solution)
  /\ \A i \in 1..Len(words) : IsUpperCaseOf(words[i], response.solution[i].mot)
  /\ foundWords = {}
  /\ selectedCells = <<>>
  /\ ~isSelecting
  /\ lockedDirection = Undefined

\* C14: a successful load replaces the whole GameState whatever the state
\* was, a gesture in progress included: every cell of the new grid has
\* isSelected and isFound false, the words are the solution's words in upper
\* case, foundWords and the gesture are empty and isSelecting is false.  A
\* failed load changes no part of GameState nor the stored solution list.
C14_LoadReplacesFailureKeeps ==
  /\ [](lastEvent.op = "loadGame" =>
          \E response \in Responses : FreshGameOf(response))
  /\ [][lastEvent'.op = "loadGameError" => UNCHANGED <<state, solution>>]_vars

\* A load has just succeeded in the middle of a gesture of two cells or more
\* and left a fresh game.
C14_Witness ==
  /\ lastEvent.op = "loadGame"
  /\ Len(lastEvent.cells) >= 2
  /\ selectedCells = <<>>
  /\ ~isSelecting
  /\ foundWords = {}
  /\ \A p \in DOMAIN grid : ~grid[p].isSelected /\ ~grid[p].isFound

-----------------------------------------------------------------------------
(* C15 *)

\* The one place where a selection operation could throw: continueSelection
\* reads lastCell.row (lines 130-135) and lastCell is undefined when
\* isSelecting is true and the gesture is empty.
ContinueSelectionWouldThrow == isSelecting /\ Len(selectedCells) = 0

\* What each selection operation does to the control state.
SelectionControlStep ==
  /\ lastEvent'.op = "startSelection" => isSelecting'
  /\ lastEvent'.op = "continueSelection" => isSelecting' = isSelecting
  /\ lastEvent'.op = "endSelection" =>
       /\ ~isSelecting'
       /\ selectedCells' = <<>>
       /\ lockedDirection' = Undefined

\* C15: the Selection Tracker is in one of two control states, Idle
\* (isSelecting false) and Selecting (isSelecting true); startSelection always
\* leads to Selecting, continueSelection never changes isSelecting, and
\* endSelection leads from any reachable state to Idle with an empty gesture
\* and no locked direction; no reachable state is one where an operation
\* throws.
C15_TwoControlStates ==
  /\ [](isSelecting \in BOOLEAN /\ ~ContinueSelectionWouldThrow)
  /\ [][SelectionControlStep]_vars

\* endSelection has just taken a gesture of two cells with a locked
\* direction to Idle, finding a word that does not complete the game.
C15_Witness ==
  /\ EndedGesture
  /\ Len(lastEvent.cells) = 2
  /\ lastEvent.found # Null
  /\ ~IsGameComplete
  /\ ~isSelecting
  /\ selectedCells = <<>>
  /\ lockedDirection = Undefined

-----------------------------------------------------------------------------
(* C16 *)

\* The solution entries, by index, that pass the matcher's letter test and
\* its endpoint test for the gesture.
PassingEntries(cells) ==
  {i \in 1..Len(solution) :
     EntryMatches(solution[i], SelectedWord(cells), cells)}

FirstEntry(entries) == CHOOSE i \in entries : \A j \in entries : i <= j

\* endSelection added at most the one word the matcher returned.
AddsAtMostOneWord ==
  lastEvent'.op = "endSelection" =>
    /\ foundWords \subseteq foundWords'
    /\ Cardinality(foundWords' \ foundWords) <= 1
    /\ foundWords' \ foundWords \subseteq {lastEvent'.found}

\* C16: when several solution entries pass the letter test and the endpoint
\* test for a finished gesture, the matcher returns the word of the first of
\* them in the order of the solution list (and no word when none passes), and
\* one endSelection adds at most one word to foundWords.
C16_FirstPassingEntryWins ==
  /\ [](EndedGesture =>
          LET passing == PassingEntries(lastEvent.cells)
          IN  IF passing = {}
              THEN lastEvent.found = Null
              ELSE lastEvent.found =
                     ToUpperCase(solution[FirstEntry(passing)].mot))
  /\ [][AddsAtMostOneWord]_vars

\* endSelection has just ended a gesture that two entries with different
\* words pass, and has found the word of the earlier one only.
C16_Witness ==
  /\ EndedGesture
  /\ \E i, j \in PassingEntries(lastEvent.cells) :
       /\ i < j
       /\ ToUpperCase(solution[i].mot) # ToUpperCase(solution[j].mot)
       /\ lastEvent.found = ToUpperCase(solution[i].mot)
       /\ ToUpperCase(solution[j].mot) \notin foundWords

-----------------------------------------------------------------------------
(* C17 *)

\* The cells marked found, and the cells on the paths of the solution
\* entries whose word is in foundWords.
FoundCells == {p \in DOMAIN GameGrid : grid[p].isFound}

PathsOfFoundWords ==
  UNION {Range(SolutionPath(solution[i])) :
           i \in {j \in 1..Len(solution) :
                    ToUpperCase(solution[j].mot) \in foundWords}}

\* C17: after any sequence of events on a loaded game, the cells with
\* isFound true are exactly the cells on the paths of the solution entries
\* whose word is in foundWords.
C17_FoundCellsAreFoundPaths ==
  (~detached /\ Len(solution) > 0) => FoundCells = PathsOfFoundWords

-----------------------------------------------------------------------------
(* C18 *)

\* The n cells from p on in direction d.
LineFrom(p, d, n) ==
  [k \in 1..n |-> <<p[1] + (k - 1) * d[1], p[2] + (k - 1) * d[2]>>]

\* The gestures of two cells or more that the handlers let through in the
\* current state: straight lines of grid cells in one of the eight
\* directions continueSelection can lock, none of them found (the handlers
\* drop startSelection and continueSelection on a found cell).
SelectableGestures ==
  {g \in {LineFrom(p, d, n) : p \in DOMAIN GameGrid, d \in EightDirections,
                              n \in 2..Cardinality(DOMAIN GameGrid)} :
     \A k \in 1..Len(g) : g[k] \in DOMAIN GameGrid /\ ~grid[g[k]].isFound}

\* Some gesture the handlers let through makes endSelection find w.
Findable(w) ==
  \E g \in SelectableGestures : CheckWord(SelectedWord(g), g) = w

PairwiseDistinctWords ==
  \A i, j \in 1..Len(words) : words[i] = words[j] => i = j

\* C18: with the handlers dropping startSelection and continueSelection on
\* found cells and a loaded game whose words are pairwise distinct, a state
\* where isGameComplete() is true stays reachable from every reachable state:
\* finding one word never makes another target word impossible to find, so
\* every target word not yet found can be found by some gesture.  (The found
\* flags are only cleared by a load, so a word no gesture can find now can
\* never be found in this game.)
C18_UnfoundWordsStayFindable ==
  (~detached /\ Len(words) > 0 /\ PairwiseDistinctWords) =>
    \A i \in 1..Len(words) : words[i] \notin foundWords => Findable(words[i])

-----------------------------------------------------------------------------
(* C19 *)

\* C19: in every reachable state every word in foundWords is one of the
\* target words, also after resetGame followed by further selection events;
\* so foundWords never has more elements than words.
C19_FoundWordsAreTargetWords ==
  /\ foundWords \subseteq Range(words)
  /\ Cardinality(foundWords) <= Len(words)

-----------------------------------------------------------------------------
(* C20 *)

\* C20: in every reachable state isSelecting is true exactly when the
\* gesture is not empty, and a locked direction is defined exactly when the
\* gesture has two cells or more.
C20_ControlMatchesGesture ==
  /\ isSelecting <=> (selectedCells # <<>>)
  /\ (Len(selectedCells) >= 2) => (isSelecting /\ lockedDirection # Undefined)
  /\ (Len(selectedCells) < 2) => lockedDirection = Undefined

\* An open gesture of three cells with its locked direction, reached by
\* continueSelection.
C20_Witness ==
  /\ lastEvent.op = "continueSelection"
  /\ lastEvent.outcome = "accepted"
  /\ isSelecting
  /\ Len(selectedCells) = 3
  /\ lockedDirection \in EightDirections

-----------------------------------------------------------------------------
(* C21 *)

\* No cell occurs twice in the gesture.
NoRepeatedCell(cells) ==
  \A i, j \in 1..Len(cells) : cells[i] = cells[j] => i = j

\* C21: in every reachable state the gesture is a straight line without gaps
\* and without repeated cells: counting from 0, its k-th cell is at the first
\* cell plus k times the locked direction.
C21_GestureIsStraightLine ==
  /\ NoRepeatedCell(selectedCells)
  /\ Len(selectedCells) >= 2 =>
       /\ lockedDirection # Undefined
       /\ \A k \in 0..(Len(selectedCells) - 1) :
            /\ grid[selectedCells[k + 1]].row =
                 grid[selectedCells[1]].row + k * lockedDirection[1]
            /\ grid[selectedCells[k + 1]].col =
                 grid[selectedCells[1]].col + k * lockedDirection[2]

\* An open gesture of three cells down the diagonal of a grid of three rows.
C21_Witness ==
  /\ isSelecting
  /\ Len(selectedCells) = 3
  /\ lockedDirection = directionCoordinates.D2
  /\ selectedCells = LineFrom(selectedCells[1], lockedDirection, 3)

-----------------------------------------------------------------------------
(* C22 *)

\* The step is a selection event: startSelection, continueSelection or
\* endSelection.
SelectionEventStep ==
  lastEvent'.op \in {"startSelection", "continueSelection", "endSelection"}

\* C22: between two grid loads progress is monotone: whatever
\* startSelection, continueSelection and endSelection events follow,
\* cancelled and non-matching gestures over found cells included, a cell
\* whose isFound is true stays so and no word leaves foundWords.
C22_ProgressIsMonotone ==
  [][SelectionEventStep =>
       /\ foundWords \subseteq foundWords'
       /\ \A p \in DOMAIN grid : grid[p].isFound => grid'[p].isFound]_vars

\* endSelection has just ended a gesture that matched nothing and passed
\* over a found cell: the cell is still found and the found word still in
\* foundWords.
C22_Witness ==
  /\ EndedGesture
  /\ lastEvent.found = Null
  /\ foundWords # {}
  /\ \E p \in Range(lastEvent.cells) : grid[p].isFound

-----------------------------------------------------------------------------
(* C23 *)

\* C23: with the handlers dropping startSelection and continueSelection on
\* cells already marked found, no cell has isSelected and isFound true at the
\* same time, in any reachable state.
C23_NeverSelectedAndFound ==
  \A p \in DOMAIN grid : ~(grid[p].isSelected /\ grid[p].isFound)

\* A gesture of two cells is open in a game with a found word: some cells
\* are found, others selected, and a found cell is next to the gesture's
\* last cell.
C23_Witness ==
  /\ isSelecting
  /\ Len(selectedCells) = 2
  /\ foundWords # {}
  /\ \E p \in DOMAIN grid :
       /\ grid[p].isFound
       /\ IsAdjacent(Abs(p[1] - selectedCells[2][1]),
                     Abs(p[2] - selectedCells[2][2]))

====
